---- MODULE Spec2Model ----
(***************************************************************************)
(* Model of src/src/health-report/build-embedded.js, the asset-embedding   *)
(* build script: main walks the template root, processHtmlFile rewrites    *)
(* each HTML document (stylesheet link, then the <img> scan-and-replace    *)
(* loop) and writes it under the output directory, main folds the          *)
(* per-document stats into the totals and sets the exit code.              *)
(*                                                                         *)
(* A text (an HTML document, an SVG file, a stylesheet) is a sequence of   *)
(* segments.  A segment is a record                                        *)
(*    [k, pre, src, post, n, of]                                           *)
(*  k = "txt"      the string src repeated n times (no tag, no comment)    *)
(*  k = "ws"       white space, src repeated n times                       *)
(*  k = "decl"     an XML declaration <?xml ...?>, src is its text         *)
(*  k = "comment"  <!-- ... --> with n characters between the delimiters   *)
(*  k = "link"     <link rel="stylesheet" href="src">                      *)
(*  k = "img"      <img PREsrc="SRC"POST>; when of # <<>> the src value is *)
(*                 the data URI src \o base64(bytes of file `of`), whose   *)
(*                 payload is n characters long                            *)
(* Lengths are counted in characters, as String.prototype.length and       *)
(* RegExp.prototype.lastIndex count them.  Of the replacement patterns of  *)
(* String.prototype.replace the texts of this model contain only "$$".     *)
(* A path is a sequence of path components, from the filesystem root.      *)
(***************************************************************************)
EXTENDS Integers, Sequences, FiniteSets, TLC

\* ------------------------------------------------------------ bounds
\* most segments in the one document of a single-document run
MaxSegs == 3
\* most documents in a multi-document run
MaxDocs == 2
\* most iterations of the image loop the model follows on one document
MaxMatches == 6
\* most runs of the build on the same tree
MaxRuns == 2
\* most bytes in an image file encoded on its own
MaxBytes == 4
\* most pieces in an SVG text cleaned on its own
MaxPieces == 4

\* ------------------------------------------------------------ configuration
BASE_DIR == <<"src", "health-report">>
OUTPUT_DIR == BASE_DIR \o <<"embedded">>
STYLES_FILE == BASE_DIR \o <<"styles.css">>
MAX_SVG_SIZE == 5 * 1024

\* ------------------------------------------------------------ segments
Seg(k, pre, src, post, n, of) ==
    [k |-> k, pre |-> pre, src |-> src, post |-> post, n |-> n, of |-> of]
Txt(s) == Seg("txt", "", s, "", 1, <<>>)
Pad(n) == Seg("txt", "", "x", "", n, <<>>)
Ws == Seg("ws", "", " ", "", 1, <<>>)
Decl == Seg("decl", "", "<?xml version='1.0'?>", "", 1, <<>>)
Comment(n) == Seg("comment", "", "", "", n, <<>>)
Link(href) == Seg("link", "", href, "", 0, <<>>)
Img(pre, src, post) == Seg("img", pre, src, post, 0, <<>>)

\* String.prototype.length of the text of one segment
SegLen(s) ==
    CASE s.k = "img" -> 5 + Len(s.pre) + 5 + Len(s.src) + s.n + 1 + Len(s.post) + 1
      [] s.k = "link" -> 29 + Len(s.src) + 2
      [] s.k = "comment" -> 4 + s.n + 3
      [] OTHER -> Len(s.src) * s.n

RECURSIVE TextLen(_)
TextLen(t) == IF t = <<>> THEN 0 ELSE SegLen(Head(t)) + TextLen(Tail(t))

\* offset of the first character of segment j of text t
Start(t, j) == TextLen(SubSeq(t, 1, j - 1))

\* ------------------------------------------------------------ strings
startsWith(s, p) == Len(s) >= Len(p) /\ SubSeq(s, 1, Len(p)) = p

UpperCase == "ABCDEFGHIJKLMNOPQRSTUVWXYZ"
LowerCase == "abcdefghijklmnopqrstuvwxyz"
LowerChar(c) ==
    IF \E u \in 1..26 : SubSeq(UpperCase, u, u) = c
    THEN LET u == CHOOSE u \in 1..26 : SubSeq(UpperCase, u, u) = c
         IN SubSeq(LowerCase, u, u)
    ELSE c

RECURSIVE toLowerCase(_)
toLowerCase(s) ==
    IF s = "" THEN ""
    ELSE LowerChar(SubSeq(s, 1, 1)) \o toLowerCase(SubSeq(s, 2, Len(s)))

\* the components of a path written with "/" separators
RECURSIVE SplitFrom(_, _, _)
SplitFrom(s, from, at) ==
    IF at > Len(s) THEN <<SubSeq(s, from, Len(s))>>
    ELSE IF SubSeq(s, at, at) = "/"
         THEN <<SubSeq(s, from, at - 1)>> \o SplitFrom(s, at + 1, at + 1)
         ELSE SplitFrom(s, from, at + 1)
Split(s) == SplitFrom(s, 1, 1)

\* path.resolve(dir, p): p relative to dir (absolute when it starts with "/"),
\* normalised: "" and "." dropped, ".." removes the component before it
RECURSIVE Normalize(_, _)
Normalize(acc, comps) ==
    IF comps = <<>> THEN acc
    ELSE LET c == Head(comps)
         IN CASE c = "" \/ c = "." -> Normalize(acc, Tail(comps))
              [] c = ".." ->
                   Normalize(IF acc = <<>> THEN acc ELSE SubSeq(acc, 1, Len(acc) - 1),
                             Tail(comps))
              [] OTHER -> Normalize(Append(acc, c), Tail(comps))
pathResolve(dir, p) == Normalize(IF startsWith(p, "/") THEN <<>> ELSE dir, Split(p))

dirname(path) == SubSeq(path, 1, Len(path) - 1)
basename(path) == path[Len(path)]

\* path.extname: from the last "." of the base name, "" when there is none or
\* when the only "." is the first character
RECURSIVE LastDot(_, _)
LastDot(s, at) ==
    IF at = 0 THEN 0 ELSE IF SubSeq(s, at, at) = "." THEN at ELSE LastDot(s, at - 1)
extname(path) ==
    LET b == basename(path)
        d == LastDot(b, Len(b))
    IN IF d <= 1 THEN "" ELSE SubSeq(b, d, Len(b))

\* ------------------------------------------------------------ files on disk
ASSETS_DIR == <<"src", "assets">>

File(readable, size, text) ==
    [type |-> "file", readable |-> readable, size |-> size, text |-> text]
\* a text file holds its text, one byte per character
TextFile(text) == File(TRUE, TextLen(text), text)
NoFile == [type |-> "none", readable |-> FALSE, size |-> 0, text |-> <<>>]

\* The asset files.  icon.svg and dollar.svg have the same size and different
\* content; edge.svg is exactly MAX_SVG_SIZE bytes and logo.svg one byte more;
\* note.svg holds only a comment and empty.svg nothing; locked.* exist and
\* cannot be read;
\* nested.svg holds, in a <foreignObject>, an <img> tag that refers to
\* nested.svg itself.
AssetFiles ==
    (ASSETS_DIR \o <<"icon.svg">> :>
        TextFile(<<Decl, Comment(747), Ws, Txt("<svg viewBox='0 0 1 1'/>")>>))
    @@ (ASSETS_DIR \o <<"dollar.svg">> :>
        TextFile(<<Decl, Comment(746), Txt("<svg><text>$$</text></svg>")>>))
    @@ (ASSETS_DIR \o <<"edge.svg">> :>
        TextFile(<<Txt("<svg>"), Pad(MAX_SVG_SIZE - 11), Txt("</svg>")>>))
    @@ (ASSETS_DIR \o <<"logo.svg">> :>
        TextFile(<<Txt("<svg>"), Pad(MAX_SVG_SIZE - 10), Txt("</svg>")>>))
    @@ (ASSETS_DIR \o <<"note.svg">> :> TextFile(<<Comment(10), Ws>>))
    @@ (ASSETS_DIR \o <<"empty.svg">> :> TextFile(<<>>))
    @@ (ASSETS_DIR \o <<"locked.svg">> :> File(FALSE, 800, <<>>))
    @@ (ASSETS_DIR \o <<"nested.svg">> :>
        TextFile(<<Comment(700),
                   Txt("<svg xmlns='http://www.w3.org/2000/svg'><foreignObject>"),
                   Img("", "../assets/nested.svg", ""),
                   Txt("</foreignObject></svg>")>>))
    @@ (ASSETS_DIR \o <<"pic.png">> :> File(TRUE, 3, <<>>))
    @@ (ASSETS_DIR \o <<"PHOTO.JPG">> :> File(TRUE, 4, <<>>))
    @@ (ASSETS_DIR \o <<"locked.png">> :> File(FALSE, 64, <<>>))
    @@ (ASSETS_DIR \o <<"doc.pdf">> :> File(TRUE, 900, <<>>))

Stat(path) == IF path \in DOMAIN AssetFiles THEN AssetFiles[path] ELSE NoFile
existsSync(path) == Stat(path).type # "none"
CanRead(path) == Stat(path).type = "file" /\ Stat(path).readable

\* the value a helper returns: null (ok = FALSE) or a text
Null == [ok |-> FALSE, val |-> <<>>]
Value(v) == [ok |-> TRUE, val |-> v]
\* mutant of Truthy: the test is `!== null`
TruthyNotNull(r) == r.ok
\* JavaScript truthiness of a string-or-null: not null and not the empty string
Truthy(r) == r.ok /\ TextLen(r.val) > 0

getFileSize(path) == IF existsSync(path) THEN Stat(path).size ELSE 0

\* mutant of MimeType: .webp is not in the table
MimeTypeNoWebp(ext) ==
    CASE ext = ".jpg" \/ ext = ".jpeg" -> "image/jpeg"
      [] ext = ".svg" -> "image/svg+xml"
      [] ext = ".gif" -> "image/gif"
      [] OTHER -> "image/png"
MimeType(ext) ==
    CASE ext = ".jpg" \/ ext = ".jpeg" -> "image/jpeg"
      [] ext = ".svg" -> "image/svg+xml"
      [] ext = ".gif" -> "image/gif"
      [] ext = ".webp" -> "image/webp"
      [] OTHER -> "image/png"

\* length of Buffer.toString('base64') of size bytes
Base64Len(size) == 4 * ((size + 2) \div 3)

\* imageToBase64: null on a read error, else the data URI, held as the src
\* fields of an img segment: its prefix, its payload length, the file encoded
imageToBase64(imagePath) ==
    IF ~CanRead(imagePath) THEN Null
    ELSE Value(<<Seg("img", "", "data:" \o MimeType(toLowerCase(extname(imagePath)))
                                 \o ";base64,",
                     "", Base64Len(Stat(imagePath).size), imagePath)>>)

RECURSIVE TrimStart(_)
TrimStart(t) == IF t # <<>> /\ Head(t).k = "ws" THEN TrimStart(Tail(t)) ELSE t
RECURSIVE TrimEnd(_)
TrimEnd(t) ==
    IF t # <<>> /\ t[Len(t)].k = "ws" THEN TrimEnd(SubSeq(t, 1, Len(t) - 1)) ELSE t

\* readSvgContent: null on a read error, else the text without XML
\* declarations and comments, trimmed
readSvgContent(svgPath) ==
    IF ~CanRead(svgPath) THEN Null
    ELSE Value(TrimEnd(TrimStart(
             SelectSeq(Stat(svgPath).text, LAMBDA s : s.k \notin {"decl", "comment"}))))

NotFound == <<>>
\* mutant of resolveAssetPath: the reference is resolved from BASE_DIR
resolveAssetPathFromRoot(htmlFilePath, assetPath) ==
    LET resolvedPath == pathResolve(BASE_DIR, assetPath)
    IN IF existsSync(resolvedPath) THEN resolvedPath ELSE NotFound
resolveAssetPath(htmlFilePath, assetPath) ==
    LET resolvedPath == pathResolve(dirname(htmlFilePath), assetPath)
    IN IF existsSync(resolvedPath) THEN resolvedPath ELSE NotFound

\* ------------------------------------------------------------ String.prototype.replace
\* GetSubstitution on a replacement string: "$$" stands for one "$"
RECURSIVE SubstituteFrom(_, _)
SubstituteFrom(s, at) ==
    IF at > Len(s) THEN ""
    ELSE IF at < Len(s) /\ SubSeq(s, at, at + 1) = "$$"
         THEN "$" \o SubstituteFrom(s, at + 2)
         ELSE SubSeq(s, at, at) \o SubstituteFrom(s, at + 1)
GetSubstitution(t) ==
    [j \in 1..Len(t) |->
        [t[j] EXCEPT !.pre = SubstituteFrom(t[j].pre, 1),
                     !.src = SubstituteFrom(t[j].src, 1),
                     !.post = SubstituteFrom(t[j].post, 1)]]

\* index of the first occurrence of the tag text in the text, 0 when none
IndexOf(text, fullTag) ==
    IF \E f \in 1..Len(text) : text[f] = fullTag
    THEN CHOOSE f \in 1..Len(text) :
            text[f] = fullTag /\ \A g \in 1..(f - 1) : text[g] # fullTag
    ELSE 0

\* htmlContent.replace(fullTag, replacement), the pattern a string: the first
\* occurrence of the pattern is replaced, the replacement's patterns expanded
StringReplace(text, fullTag, replacement) ==
    LET f == IndexOf(text, fullTag)
    IN IF f = 0 THEN text
       ELSE SubSeq(text, 1, f - 1) \o GetSubstitution(replacement)
            \o SubSeq(text, f + 1, Len(text))

\* imgRegex.exec(text) with the regex's lastIndex: the index of the first <img>
\* tag that starts at or after lastIndex, 0 when exec returns null
Exec(text, from) ==
    LET hits == {j \in 1..Len(text) : text[j].k = "img" /\ Start(text, j) >= from}
    IN IF from > TextLen(text) \/ hits = {} THEN 0
       ELSE CHOOSE j \in hits : \A h \in hits : j <= h

\* ------------------------------------------------------------ stylesheet
endsWith(s, p) == Len(s) >= Len(p) /\ SubSeq(s, Len(s) - Len(p) + 1, Len(s)) = p

\* cssLinkRegex matches this segment
CssLinkMatches(s) == s.k = "link" /\ endsWith(s.src, "styles.css")

\* the states the shared stylesheet file may be in when it is read
StyleSheets ==
    { TextFile(<<Txt("body{color:red}")>>),
      TextFile(<<Txt(".price::before{content:'$$'}")>>),
      TextFile(<<>>),
      File(FALSE, 15, <<>>) }

\* mutant of inlineCss: a read error gives the empty string
inlineCssSilent(file) == IF file.readable THEN Value(file.text) ELSE Value(<<>>)
\* inlineCss: the content of the stylesheet file, null on a read error
inlineCss(file) == IF file.readable THEN Value(file.text) ELSE Null

RECURSIVE ReplaceAll(_, _)
\* htmlContent.replace(cssLinkRegex, inlineStyleTag), the regex global: every
\* match is replaced
ReplaceAll(text, replacement) ==
    IF text = <<>> THEN <<>>
    ELSE (IF CssLinkMatches(Head(text)) THEN GetSubstitution(replacement)
          ELSE <<Head(text)>>) \o ReplaceAll(Tail(text), replacement)

\* ------------------------------------------------------------ the tree under BASE_DIR
\* an entry of a directory: its name, and whether statSync says isDirectory()
Entry(name, isDir) == [name |-> name, dir |-> isDir]

\* mutant of IsHtml: the extension is compared without regard to case
IsHtmlAnyCase(file) == endsWith(toLowerCase(file), ".html")
\* file.endsWith('.html')
IsHtml(file) == endsWith(file, ".html")

\* mutant of IsOutputDir: the path is compared with the output directory's
\* path relative to BASE_DIR
IsOutputDirRelative(filePath) == filePath = <<"embedded">>
\* filePath === OUTPUT_DIR
IsOutputDir(filePath) == filePath = OUTPUT_DIR

\* the forEach of findHtmlFiles over the entries of dir, in the tree t: the
\* paths pushed on fileList, in order
RECURSIVE WalkEntries(_, _, _)
WalkEntries(t, dir, files) ==
    IF files = <<>> THEN <<>>
    ELSE LET file == Head(files)
             filePath == dir \o <<file.name>>
         IN (IF file.dir
             THEN IF IsOutputDir(filePath) THEN <<>>
                  ELSE WalkEntries(t, filePath, t[filePath])
             ELSE IF IsHtml(file.name) THEN <<filePath>> ELSE <<>>)
            \o WalkEntries(t, dir, Tail(files))

\* ensureDir(dir): mkdirSync with recursive: true when dir does not exist
RECURSIVE ensureDir(_, _)
ensureDir(t, dir) ==
    IF dir \in DOMAIN t THEN t
    ELSE LET up == ensureDir(t, dirname(dir))
         IN [up EXCEPT ![dirname(dir)] = Append(@, Entry(basename(dir), TRUE))]
            @@ (dir :> <<>>)

\* fs.writeFileSync(filePath, ...) in an existing directory: the file is
\* created when the directory has no entry of that name
writeFileSync(t, filePath) ==
    IF \E e \in 1..Len(t[dirname(filePath)]) :
           t[dirname(filePath)][e].name = basename(filePath)
    THEN t
    ELSE [t EXCEPT ![dirname(filePath)] = Append(@, Entry(basename(filePath), FALSE))]

\* ------------------------------------------------------------ state
VARIABLES
    pc,          \* "start", "next" (main's forEach), "scan" (the image loop), "done", "crashed"
    docs,        \* the HTML documents on disk, in walk order: [path, text]
    htmlFiles,   \* main: the list findHtmlFiles returned
    i,           \* main: index in htmlFiles of the document of the forEach callback
    htmlContent, \* processHtmlFile: the text being rewritten
    lastIndex,   \* processHtmlFile: imgRegex.lastIndex
    stats,       \* processHtmlFile: the document's stats
    totalStats,  \* main: the totals
    docStats,    \* the stats processHtmlFile returned, one per document done
    written,     \* the files written: output path -> text
    exitCode,    \* the process exit code, -1 while the process runs
    logged,      \* the kinds of warning written to the console
    call,        \* the innermost helper the last loop iteration called
    matches,     \* the matches of the image loop on the document that were not passed over
    tree,        \* the directories under BASE_DIR: path -> the entries readdirSync lists
    run,         \* the number of this run of the build on the tree
    firstFiles,  \* the list findHtmlFiles returned in the run before this one
    sheet,       \* styles.css as the last inlineCss found it
    argv,        \* process.argv after the script's name: the command line arguments
    arg,         \* a helper called on its own: the helper and its arguments
    ret          \* a helper called on its own: what it returned

vars == <<pc, docs, htmlFiles, i, htmlContent, lastIndex, stats, totalStats,
          docStats, written, exitCode, logged, call, matches, tree, run,
          firstFiles, sheet, argv, arg, ret>>

\* no helper is called on its own
NoCall == [fn |-> "none"]

NewStats ==
    [svgsInlined |-> 0, pngsEncoded |-> 0, skipped |-> 0, errors |-> 0,
     cssInlined |-> FALSE]
NewTotals ==
    [cssInlined |-> 0, svgsInlined |-> 0, pngsEncoded |-> 0, skipped |-> 0,
     errors |-> 0]

\* ------------------------------------------------------------ inputs
\* document d of a run lies d - 1 directories below BASE_DIR
DocPath(d) == BASE_DIR \o [k \in 1..(d - 1) |-> "pages"] \o <<"index.html">>
\* the relative path from document d's directory to the parent of BASE_DIR
RECURSIVE Up(_)
Up(d) == IF d = 0 THEN "" ELSE "../" \o Up(d - 1)
Asset(d, name) == Up(d) \o "assets/" \o name

\* the segments a single-document run draws its document from
SegChoices ==
    { Img("", Asset(1, "icon.svg"), " alt=icon width=12"),
      Img("", Asset(1, "dollar.svg"), ""),
      Img("", Asset(1, "edge.svg"), ""),
      Img("", Asset(1, "logo.svg"), " alt=logo"),
      Img("", Asset(1, "note.svg"), ""),
      Img("", Asset(1, "pic.png"), ""),
      Img("alt=$$ ", Asset(1, "PHOTO.JPG"), " width=9"),
      Img("", Asset(1, "missing.png"), ""),
      Img("", Asset(1, "doc.pdf"), ""),
      Img("", "data:image/gif;base64,R0lGODdh", ""),
      Img("", "https://cdn.example/a.png", " alt=a") }

\* the segments of the single documents that hold stylesheet links
LinkChoices ==
    { Link("styles.css"),
      Img("", Asset(1, "icon.svg"), " alt=icon width=12"),
      Img("", Asset(1, "note.svg"), "") }

Texts ==
    UNION {[1..n -> SegChoices] : n \in 0..MaxSegs}
    \cup UNION {[1..n -> LinkChoices] : n \in 0..MaxSegs}

\* the documents a multi-document run draws document d from
RunTexts(d) ==
    { <<>>,
      <<Img("", Asset(d, "pic.png"), "")>>,
      <<Img("", Asset(d, "missing.png"), "")>>,
      <<Img("", Asset(d, "locked.png"), "")>>,
      <<Img("", Asset(d, "locked.svg"), "")>>,
      <<Img("", "http://cdn.example/a.png", "")>>,
      <<Link(Up(d - 1) \o "styles.css")>>,
      <<Link(Up(d - 1) \o "styles.css"), Img("", Asset(d, "icon.svg"), "")>>,
      <<Img("", Asset(d, "nested.svg"), "")>>,
      <<Img("", Asset(d, "empty.svg"), "")>>,
      <<Img("", Asset(d, "nested.svg"), ""), Img("", Asset(d, "pic.png"), "")>> }
RunDocs(d) == {[path |-> DocPath(d), text |-> t] : t \in RunTexts(d)}

Inputs ==
    {<<[path |-> DocPath(1), text |-> t]>> : t \in Texts}
    \cup UNION { {ds \in [1..n -> UNION {RunDocs(d) : d \in 1..n}] :
                     \A d \in 1..n : ds[d] \in RunDocs(d)}
                 : n \in {0} \cup 2..MaxDocs }

\* the directory k levels below BASE_DIR on the way to the documents
DocDir(k) == BASE_DIR \o [j \in 1..k |-> "pages"]

\* The tree that holds the documents ds: document d in DocDir(d - 1), and
\* beside the first a stylesheet, a directory named drafts.html that holds no
\* document, and the output directory with a file of an earlier build.
TreeOf(ds) ==
    LET n == Len(ds)
        Listing(k) ==
            (IF k = 0 THEN <<Entry("drafts.html", TRUE), Entry("embedded", TRUE)>>
             ELSE <<>>)
            \o (IF n >= k + 1 THEN <<Entry("index.html", FALSE)>> ELSE <<>>)
            \o (IF n >= k + 2 THEN <<Entry("pages", TRUE)>> ELSE <<>>)
            \o (IF k = 0 THEN <<Entry("styles.css", FALSE)>> ELSE <<>>)
        deepest == IF n = 0 THEN 0 ELSE n - 1
    IN [p \in {DocDir(k) : k \in 0..deepest} |-> Listing(Len(p) - Len(BASE_DIR))]
       @@ (BASE_DIR \o <<"drafts.html">> :> <<Entry("notes.txt", FALSE)>>)
       @@ (OUTPUT_DIR :> <<Entry("old.html", FALSE)>>)

Init ==
    /\ docs \in Inputs
    /\ tree = TreeOf(docs)
    /\ run = 1
    /\ firstFiles = <<>>
    /\ matches = 0
    /\ sheet = NoFile
    /\ argv = <<>>
    /\ arg = NoCall
    /\ ret = NoCall
    /\ pc = "start"
    /\ htmlFiles = <<>>
    /\ i = 0
    /\ htmlContent = <<>>
    /\ lastIndex = 0
    /\ stats = NewStats
    /\ totalStats = NewTotals
    /\ docStats = <<>>
    /\ written = <<>>
    /\ exitCode = -1
    /\ logged = {}
    /\ call = "none"

\* ------------------------------------------------------------ main
\* findHtmlFiles(dir) on the tree as it is
findHtmlFiles(dir) == WalkEntries(tree, dir, tree[dir])

FindHtmlFiles ==
    /\ pc = "start"
    /\ htmlFiles' = findHtmlFiles(BASE_DIR)
    /\ i' = 1
    /\ pc' = "next"
    /\ UNCHANGED <<docs, htmlContent, lastIndex, stats, totalStats, docStats,
                   written, exitCode, logged, call, matches, tree, run, firstFiles, sheet, argv, arg, ret>>

\* an exception nothing catches: Node prints it and exits with code 1
Uncaught ==
    /\ pc' = "crashed"
    /\ exitCode' = 1
    /\ logged' = logged \cup {"uncaught exception"}

\* mutant of WalkThrows: findHtmlFiles catches the error and returns the
\* paths it has found
WalkThrowsCaught ==
    /\ pc = "start"
    /\ logged' = logged \cup {"Error scanning directory"}
    /\ htmlFiles' = findHtmlFiles(BASE_DIR)
    /\ i' = 1
    /\ pc' = "next"
    /\ UNCHANGED <<docs, htmlContent, lastIndex, stats, totalStats, docStats,
                   written, exitCode, call, matches, tree, run, firstFiles, sheet, argv, arg, ret>>
\* readdirSync or statSync throws in findHtmlFiles
WalkThrows ==
    /\ pc = "start"
    /\ pc' = "crashed"
    /\ exitCode' = 1
    /\ logged' = logged \cup {"uncaught exception", "Error scanning directory"}
    /\ UNCHANGED <<docs, htmlFiles, i, htmlContent, lastIndex, stats, totalStats,
                   docStats, written, call, matches, tree, run, firstFiles, sheet, argv, arg, ret>>

htmlFile == htmlFiles[i]
\* mutant of relativePath: the base name of the document
relativePathBase == <<basename(htmlFile)>>
\* path.relative(BASE_DIR, htmlFile), htmlFile under BASE_DIR
relativePath == SubSeq(htmlFile, Len(BASE_DIR) + 1, Len(htmlFile))
\* mutant of outputPath: the document is rewritten in place
outputPathInPlace == htmlFile
\* path.join(OUTPUT_DIR, relativePath)
outputPath == OUTPUT_DIR \o relativePath

\* processHtmlFile up to the image loop: the document is read and its
\* stylesheet link inlined
\* fs.readFileSync(htmlFilePath, 'utf8'): the text of a document of the run,
\* of a file this or an earlier run wrote, or of the file left under the
\* output directory by an earlier build
readFileSync(htmlFilePath) ==
    IF \E d \in 1..Len(docs) : docs[d].path = htmlFilePath
    THEN docs[CHOOSE d \in 1..Len(docs) : docs[d].path = htmlFilePath].text
    ELSE IF htmlFilePath \in DOMAIN written THEN written[htmlFilePath]
    ELSE <<Img("", Up(Len(htmlFilePath) - Len(BASE_DIR)) \o "assets/pic.png", "")>>

BeginDoc ==
    /\ pc = "next"
    /\ i <= Len(htmlFiles)
    /\ LET text == readFileSync(htmlFile)
           cssMatch == \E j \in 1..Len(text) : CssLinkMatches(text[j])
       IN IF cssMatch
          THEN \E found \in StyleSheets :
                 LET cssContent == inlineCss(found)
                     inlineStyleTag ==
                         <<Txt("<style>\n")>> \o cssContent.val \o <<Txt("\n    </style>")>>
                 IN /\ sheet' = found
                    /\ IF Truthy(cssContent)
                       THEN /\ htmlContent' = ReplaceAll(text, inlineStyleTag)
                            /\ stats' = [NewStats EXCEPT !.cssInlined = TRUE]
                            /\ logged' = logged
                       ELSE /\ htmlContent' = text
                            /\ stats' = NewStats
                            /\ logged' = IF cssContent.ok THEN logged
                                         ELSE logged \cup {"Error reading styles.css"}
          ELSE /\ htmlContent' = text
               /\ stats' = NewStats
               /\ logged' = logged
               /\ sheet' = sheet
    /\ lastIndex' = 0
    /\ call' = "none"
    /\ matches' = 0
    /\ pc' = "scan"
    /\ UNCHANGED <<docs, htmlFiles, i, totalStats, docStats, written, exitCode,
                   tree, run, firstFiles, argv, arg, ret>>

\* fs.readFileSync(htmlFilePath) throws
ReadThrows ==
    /\ pc = "next"
    /\ i <= Len(htmlFiles)
    /\ Uncaught
    /\ UNCHANGED <<docs, htmlFiles, i, htmlContent, lastIndex, stats, totalStats,
                   docStats, written, call, matches, tree, run, firstFiles, sheet, argv, arg, ret>>

\* ------------------------------------------------------------ the image loop
\* mutant of IsPassThrough: the https:// test is missing
IsPassThroughNoHttps(assetPath) ==
    \/ startsWith(assetPath, "data:")
    \/ startsWith(assetPath, "http://")
IsPassThrough(assetPath) ==
    \/ startsWith(assetPath, "data:")
    \/ startsWith(assetPath, "http://")
    \/ startsWith(assetPath, "https://")

\* mutant of FitsInline: a file of exactly MAX_SVG_SIZE bytes is not inlined
FitsInlineStrict(fileSize) == fileSize < MAX_SVG_SIZE
FitsInline(fileSize) == fileSize <= MAX_SVG_SIZE

IsRaster(ext) == ext \in {".png", ".jpg", ".jpeg", ".gif", ".webp"}

\* mutant of CountError: the error is not counted
CountErrorForgotten(st) == st
CountError(st) == [st EXCEPT !.errors = @ + 1]
\* mutant of CountSkipped: an unsupported format is counted as an error
CountSkippedAsError(st) == [st EXCEPT !.errors = @ + 1]
CountSkipped(st) == [st EXCEPT !.skipped = @ + 1]
CountSvg(st) == [st EXCEPT !.svgsInlined = @ + 1]
CountEncoded(st) == [st EXCEPT !.pngsEncoded = @ + 1]

\* the data URI of imageToBase64 put in the matched tag:
\* `<img ${beforeSrc}src="${base64}"${afterSrc}>`
NewTag(fullTag, base64) ==
    <<[base64.val[1] EXCEPT !.pre = fullTag.pre, !.post = fullTag.post]>>

Outcome(html, st, msgs, helper) ==
    [html |-> html, stats |-> st, msgs |-> msgs, call |-> helper]

\* the base64 branch, of an oversized SVG and of a raster image
EncodeBranch(text, st, fullTag, resolvedPath) ==
    LET base64 == imageToBase64(resolvedPath)
    IN IF Truthy(base64)
       THEN Outcome(StringReplace(text, fullTag, NewTag(fullTag, base64)),
                    CountEncoded(st), {}, "imageToBase64")
       ELSE Outcome(text, CountError(st), {"Error converting to base64"},
                    "imageToBase64")

\* one iteration of the while loop on the match fullTag
LoopBody(text, st, fullTag, htmlFilePath) ==
    LET assetPath == fullTag.src
        resolvedPath == resolveAssetPath(htmlFilePath, assetPath)
        ext == toLowerCase(extname(resolvedPath))
        fileSize == getFileSize(resolvedPath)
        svgContent == readSvgContent(resolvedPath)
    IN IF IsPassThrough(assetPath) THEN Outcome(text, st, {}, "none")
       ELSE IF resolvedPath = NotFound
       THEN Outcome(text, CountError(st), {"Asset not found"}, "resolveAssetPath")
       ELSE IF ext = ".svg"
       THEN IF FitsInline(fileSize)
            THEN IF Truthy(svgContent)
                 THEN Outcome(StringReplace(text, fullTag, svgContent.val),
                              CountSvg(st), {}, "readSvgContent")
                 ELSE Outcome(text, CountError(st),
                              IF svgContent.ok THEN {} ELSE {"Error reading SVG"},
                              "readSvgContent")
            ELSE EncodeBranch(text, st, fullTag, resolvedPath)
       ELSE IF IsRaster(ext)
       THEN EncodeBranch(text, st, fullTag, resolvedPath)
       ELSE Outcome(text, CountSkipped(st), {}, "resolveAssetPath")

\* the match of the next imgRegex.exec(htmlContent), 0 when null
Match == Exec(htmlContent, lastIndex)

Step ==
    /\ pc = "scan"
    /\ Match # 0
    /\ matches < MaxMatches
    /\ LET fullTag == htmlContent[Match]
           out == LoopBody(htmlContent, stats, fullTag, htmlFile)
       IN /\ lastIndex' = Start(htmlContent, Match) + SegLen(fullTag)
          /\ htmlContent' = out.html
          /\ stats' = out.stats
          /\ logged' = logged \cup out.msgs
          /\ call' = out.call
          /\ matches' = IF IsPassThrough(fullTag.src) THEN matches ELSE matches + 1
    /\ UNCHANGED <<pc, docs, htmlFiles, i, totalStats, docStats, written, exitCode,
                   tree, run, firstFiles, sheet, argv, arg, ret>>

\* ------------------------------------------------------------ after the loop
\* mutant of Fold: the stylesheet flag is not counted
FoldWithoutCss(totals, st) ==
    [cssInlined |-> totals.cssInlined,
     svgsInlined |-> totals.svgsInlined + st.svgsInlined,
     pngsEncoded |-> totals.pngsEncoded + st.pngsEncoded,
     skipped |-> totals.skipped + st.skipped,
     errors |-> totals.errors + st.errors]
\* mutant of Fold: the error total is assigned, not added to
FoldAssignsErrors(totals, st) ==
    [cssInlined |-> totals.cssInlined + (IF st.cssInlined THEN 1 ELSE 0),
     svgsInlined |-> totals.svgsInlined + st.svgsInlined,
     pngsEncoded |-> totals.pngsEncoded + st.pngsEncoded,
     skipped |-> totals.skipped + st.skipped,
     errors |-> st.errors]
Fold(totals, st) ==
    [cssInlined |-> totals.cssInlined + (IF st.cssInlined THEN 1 ELSE 0),
     svgsInlined |-> totals.svgsInlined + st.svgsInlined,
     pngsEncoded |-> totals.pngsEncoded + st.pngsEncoded,
     skipped |-> totals.skipped + st.skipped,
     errors |-> totals.errors + st.errors]

\* mutant of EndDoc: the output is not written
EndDocWithoutWrite ==
    /\ pc = "scan"
    /\ Match = 0
    /\ docStats' = Append(docStats, stats)
    /\ totalStats' = Fold(totalStats, stats)
    /\ i' = i + 1
    /\ lastIndex' = 0
    /\ pc' = "next"
    /\ UNCHANGED <<docs, htmlFiles, htmlContent, stats, exitCode, logged, call,
                   matches, run, firstFiles, sheet, argv, arg, ret, written, tree>>

\* exec returned null: the output is written, processHtmlFile returns its stats
\* and the forEach callback adds them to the totals
EndDoc ==
    /\ pc = "scan"
    /\ Match = 0
    /\ written' = (outputPath :> htmlContent) @@ written
    /\ tree' = writeFileSync(ensureDir(tree, dirname(outputPath)), outputPath)
    /\ docStats' = Append(docStats, stats)
    /\ totalStats' = Fold(totalStats, stats)
    /\ i' = i + 1
    /\ lastIndex' = 0
    /\ pc' = "next"
    /\ UNCHANGED <<docs, htmlFiles, htmlContent, stats, exitCode, logged, call,
                   matches, run, firstFiles, sheet, argv, arg, ret>>

\* ensureDir's mkdirSync, writeFileSync or statSync throws
WriteThrows ==
    /\ pc = "scan"
    /\ Match = 0
    /\ Uncaught
    /\ lastIndex' = 0
    /\ UNCHANGED <<docs, htmlFiles, i, htmlContent, stats, totalStats, docStats,
                   written, call, matches, tree, run, firstFiles, sheet, argv, arg, ret>>

ExitCodeOf(totals) == IF totals.errors > 0 THEN 1 ELSE 0

\* main after the forEach: the report, and process.exit(1) on errors
Finish ==
    /\ pc = "next"
    /\ i > Len(htmlFiles)
    /\ exitCode' = ExitCodeOf(totalStats)
    /\ pc' = "done"
    /\ UNCHANGED <<docs, htmlFiles, i, htmlContent, lastIndex, stats, totalStats,
                   docStats, written, logged, call, matches, tree, run, firstFiles, sheet, argv, arg, ret>>

Next ==
    \/ FindHtmlFiles
    \/ WalkThrows
    \/ BeginDoc
    \/ ReadThrows
    \/ Step
    \/ EndDoc
    \/ WriteThrows
    \/ Finish

Spec == Init /\ [][Next]_vars

\* ------------------------------------------------------------ repeated builds
\* The entries a tree of the repeated builds may have in BASE_DIR, in
\* readdirSync's order: a document, a file whose extension is in capitals, a
\* directory named like a document, the output directory of an earlier build,
\* a directory that holds a directory named like the output directory, and a
\* file that is no document.
WalkPool ==
    <<Entry("a.html", FALSE), Entry("B.HTML", FALSE), Entry("c.html", TRUE),
      Entry("embedded", TRUE), Entry("sub", TRUE), Entry("x.txt", FALSE)>>

WalkTree(S) ==
    (BASE_DIR :> SelectSeq(WalkPool, LAMBDA e : \E k \in S : WalkPool[k] = e))
    @@ (IF 3 \in S
        THEN BASE_DIR \o <<"c.html">> :>
                <<Entry("d.html", FALSE), Entry("notes.txt", FALSE)>>
        ELSE <<>>)
    @@ (IF 4 \in S
        THEN (OUTPUT_DIR :> <<Entry("a.html", FALSE), Entry("sub", TRUE)>>)
             @@ (OUTPUT_DIR \o <<"sub">> :> <<Entry("e.html", FALSE)>>)
        ELSE <<>>)
    @@ (IF 5 \in S
        THEN (BASE_DIR \o <<"sub">> :>
                <<Entry("embedded", TRUE), Entry("g.html", FALSE)>>)
             @@ (BASE_DIR \o <<"sub", "embedded">> :> <<Entry("f.html", FALSE)>>)
        ELSE <<>>)

WalkTrees == {WalkTree(S) : S \in SUBSET (1..Len(WalkPool))}

InitWalk ==
    /\ docs = <<>>
    /\ tree \in WalkTrees
    /\ run = 1
    /\ firstFiles = <<>>
    /\ matches = 0
    /\ sheet = NoFile
    /\ argv = <<>>
    /\ arg = NoCall
    /\ ret = NoCall
    /\ pc = "start"
    /\ htmlFiles = <<>>
    /\ i = 0
    /\ htmlContent = <<>>
    /\ lastIndex = 0
    /\ stats = NewStats
    /\ totalStats = NewTotals
    /\ docStats = <<>>
    /\ written = <<>>
    /\ exitCode = -1
    /\ logged = {}
    /\ call = "none"

\* the build has ended and is started again on the tree it left: a new process
Rerun ==
    /\ pc = "done"
    /\ run < MaxRuns
    /\ run' = run + 1
    /\ firstFiles' = htmlFiles
    /\ pc' = "start"
    /\ htmlFiles' = <<>>
    /\ i' = 0
    /\ htmlContent' = <<>>
    /\ lastIndex' = 0
    /\ stats' = NewStats
    /\ totalStats' = NewTotals
    /\ docStats' = <<>>
    /\ exitCode' = -1
    /\ logged' = {}
    /\ call' = "none"
    /\ matches' = 0
    /\ UNCHANGED <<docs, written, tree, sheet, argv, arg, ret>>

NextWalk == Next \/ Rerun

SpecWalk == InitWalk /\ [][NextWalk]_vars

\* ------------------------------------------------------------ the helpers on their own
\* Here a file's content is a sequence of bytes (imageToBase64) or a string
\* (readSvgContent), and the helpers' results are the strings they return.
Base64Alphabet == "ABCDEFGHIJKLMNOPQRSTUVWXYZabcdefghijklmnopqrstuvwxyz0123456789+/"
Base64Char(v) == SubSeq(Base64Alphabet, v + 1, v + 1)

\* Buffer.prototype.toString('base64')
RECURSIVE toBase64(_)
toBase64(bytes) ==
    IF bytes = <<>> THEN ""
    ELSE IF Len(bytes) = 1
    THEN Base64Char(bytes[1] \div 4) \o Base64Char((bytes[1] % 4) * 16) \o "=="
    ELSE IF Len(bytes) = 2
    THEN Base64Char(bytes[1] \div 4)
         \o Base64Char((bytes[1] % 4) * 16 + bytes[2] \div 16)
         \o Base64Char((bytes[2] % 16) * 4) \o "="
    ELSE Base64Char(bytes[1] \div 4)
         \o Base64Char((bytes[1] % 4) * 16 + bytes[2] \div 16)
         \o Base64Char((bytes[2] % 16) * 4 + bytes[3] \div 64)
         \o Base64Char(bytes[3] % 64)
         \o toBase64(SubSeq(bytes, 4, Len(bytes)))

\* imageToBase64 on a readable file: `data:${mimeType};base64,${base64}`
DataUri(imagePath, imageBuffer) ==
    "data:" \o MimeType(toLowerCase(extname(imagePath))) \o ";base64,"
    \o toBase64(imageBuffer)

\* index of the first occurrence of p in s at or after from, 0 when none
RECURSIVE IndexOfStr(_, _, _)
IndexOfStr(s, p, from) ==
    IF from + Len(p) - 1 > Len(s) THEN 0
    ELSE IF SubSeq(s, from, from + Len(p) - 1) = p THEN from
    ELSE IndexOfStr(s, p, from + 1)

\* svgContent.replace(/<\?xml[^?]*\?>/g, ''): a match starts at "<?xml" and
\* ends at the first "?" after it, which a ">" must follow
RECURSIVE RemoveDecls(_)
RemoveDecls(s) ==
    LET at == IndexOfStr(s, "<?xml", 1)
        q == IndexOfStr(s, "?", at + 5)
    IN IF at = 0 THEN s
       ELSE IF q # 0 /\ q < Len(s) /\ SubSeq(s, q + 1, q + 1) = ">"
       THEN SubSeq(s, 1, at - 1) \o RemoveDecls(SubSeq(s, q + 2, Len(s)))
       ELSE SubSeq(s, 1, at) \o RemoveDecls(SubSeq(s, at + 1, Len(s)))

\* svgContent.replace(/<!--[\s\S]*?-->/g, ''): a match starts at "<!--" and
\* ends with the first "-->" after it; the scan goes on behind the match
RECURSIVE RemoveComments(_)
RemoveComments(s) ==
    LET at == IndexOfStr(s, "<!--", 1)
        end == IndexOfStr(s, "-->", at + 4)
    IN IF at = 0 \/ end = 0 THEN s
       ELSE SubSeq(s, 1, at - 1) \o RemoveComments(SubSeq(s, end + 3, Len(s)))

\* String.prototype.trim
RECURSIVE trim(_)
trim(s) ==
    IF s # "" /\ SubSeq(s, 1, 1) = " " THEN trim(SubSeq(s, 2, Len(s)))
    ELSE IF s # "" /\ SubSeq(s, Len(s), Len(s)) = " " THEN trim(SubSeq(s, 1, Len(s) - 1))
    ELSE s

\* readSvgContent on a readable file that holds the string s
CleanSvg(s) == trim(RemoveComments(RemoveDecls(s)))

\* the image files: a name and up to MaxBytes bytes
ImageNames == {"a.png", "b.JPG", "c.jpeg", "d.gif", "e.WebP", "f.svg", "g.bmp", "h"}
ByteChoices == {0, 77, 255}
ImageCalls ==
    {[fn |-> "imageToBase64", path |-> ASSETS_DIR \o <<name>>, bytes |-> b] :
        name \in ImageNames, b \in UNION {[1..n -> ByteChoices] : n \in 0..MaxBytes}}

\* the SVG texts: up to MaxPieces of these pieces, one after the other
SvgPieces == {"<?xml version='1.0'?>", "<!--a-->", "<!-", "-", "-->", " ", "<svg/>"}
RECURSIVE Concat(_)
Concat(pieces) == IF pieces = <<>> THEN "" ELSE Head(pieces) \o Concat(Tail(pieces))
SvgCalls ==
    {[fn |-> "readSvgContent", text |-> Concat(ps)] :
        ps \in UNION {[1..n -> SvgPieces] : n \in 0..MaxPieces}}

\* the references resolved: from a document in BASE_DIR and from one below it
ResolveCalls ==
    {[fn |-> "resolveAssetPath", htmlFilePath |-> DocPath(d), assetPath |-> a] :
        d \in 1..2,
        a \in {"../assets/pic.png", "../../assets/pic.png", "./../assets/pic.png",
               ".././../assets/PHOTO.JPG", "assets/pic.png", "pic.png",
               "../assets/missing.png", "/src/assets/pic.png"}}

InitHelpers ==
    /\ arg \in ImageCalls \cup SvgCalls \cup ResolveCalls
    /\ ret = NoCall
    /\ pc = "helper"
    /\ docs = <<>>
    /\ argv = <<>>
    /\ tree = TreeOf(docs)
    /\ run = 1
    /\ firstFiles = <<>>
    /\ matches = 0
    /\ sheet = NoFile
    /\ htmlFiles = <<>>
    /\ i = 0
    /\ htmlContent = <<>>
    /\ lastIndex = 0
    /\ stats = NewStats
    /\ totalStats = NewTotals
    /\ docStats = <<>>
    /\ written = <<>>
    /\ exitCode = -1
    /\ logged = {}
    /\ call = "none"

Returns(v) ==
    /\ pc = "helper"
    /\ ret = NoCall
    /\ ret' = [fn |-> arg.fn, val |-> v]
    /\ UNCHANGED <<pc, docs, htmlFiles, i, htmlContent, lastIndex, stats, totalStats,
                   docStats, written, exitCode, logged, call, matches, tree, run,
                   firstFiles, sheet, argv, arg>>

CallImageToBase64 ==
    /\ arg.fn = "imageToBase64"
    /\ Returns(DataUri(arg.path, arg.bytes))

CallReadSvgContent ==
    /\ arg.fn = "readSvgContent"
    /\ Returns(CleanSvg(arg.text))

CallResolveAssetPath ==
    /\ arg.fn = "resolveAssetPath"
    /\ Returns(resolveAssetPath(arg.htmlFilePath, arg.assetPath))

NextHelpers ==
    \/ CallImageToBase64
    \/ CallReadSvgContent
    \/ CallResolveAssetPath

SpecHelpers == InitHelpers /\ [][NextHelpers]_vars

\* ------------------------------------------------------------ the command line
\* the arguments the README documents: --help, a directory, a file
CliArgs == {<<"--help">>, <<"pages/">>, <<"index.html">>, <<"pages/index.html">>}

\* the build started with an argument on a tree of MaxDocs documents; main
\* does not read process.argv, so the steps are those of Next
InitCli ==
    /\ docs \in {ds \in [1..MaxDocs -> UNION {RunDocs(d) : d \in 1..MaxDocs}] :
                    \A d \in 1..MaxDocs : ds[d] \in RunDocs(d)}
    /\ argv \in CliArgs
    /\ tree = TreeOf(docs)
    /\ run = 1
    /\ firstFiles = <<>>
    /\ matches = 0
    /\ sheet = NoFile
    /\ arg = NoCall
    /\ ret = NoCall
    /\ pc = "start"
    /\ htmlFiles = <<>>
    /\ i = 0
    /\ htmlContent = <<>>
    /\ lastIndex = 0
    /\ stats = NewStats
    /\ totalStats = NewTotals
    /\ docStats = <<>>
    /\ written = <<>>
    /\ exitCode = -1
    /\ logged = {}
    /\ call = "none"

SpecCli == InitCli /\ [][Next]_vars

\* ------------------------------------------------------------ claims: vocabulary
\* the output path of document d, and whether its output has been written
OutPath(d) == OUTPUT_DIR \o SubSeq(docs[d].path, Len(BASE_DIR) + 1, Len(docs[d].path))
Written(d) == OutPath(d) \in DOMAIN written

\* an <img> tag as the document's author wrote it (not one the build rewrote)
AsWritten(s) == s.k = "img" /\ s.of = <<>>
RemoteOrData(s) ==
    \/ (Len(s.src) >= 5 /\ SubSeq(s.src, 1, 5) = "data:")
    \/ (Len(s.src) >= 7 /\ SubSeq(s.src, 1, 7) = "http://")
    \/ (Len(s.src) >= 8 /\ SubSeq(s.src, 1, 8) = "https://")
LocalRef(s) == AsWritten(s) /\ ~RemoteOrData(s)

\* the file a local reference of the document at docPath points at
Target(docPath, s) == pathResolve(dirname(docPath), s.src)
TargetExt(docPath, s) == toLowerCase(extname(Target(docPath, s)))
SupportedExts == {".svg", ".png", ".jpg", ".jpeg", ".gif", ".webp"}
SmallSvg(docPath, s) ==
    TargetExt(docPath, s) = ".svg" /\ Stat(Target(docPath, s)).size <= 5120

\* a local reference to a readable file with a supported extension (a small SVG
\* with nothing left after the cleanup is not counted here)
Processable(docPath, s) ==
    /\ LocalRef(s)
    /\ CanRead(Target(docPath, s))
    /\ TargetExt(docPath, s) \in SupportedExts
    /\ SmallSvg(docPath, s) => readSvgContent(Target(docPath, s)).val # <<>>

\* ------------------------------------------------------------ C1
\* C1: once processHtmlFile has written a document, no image reference that is
\* local, resolves to a readable file and has a supported extension is left in
\* its original form in the written output.
C1_NoProcessableReferenceLeft ==
    \A d \in 1..Len(docs) :
        Written(d) =>
            \A j \in 1..Len(written[OutPath(d)]) :
                ~Processable(docs[d].path, written[OutPath(d)][j])

\* the loop is about to process a match; Matched is that tag
AtMatch == pc = "scan" /\ Match # 0
Matched == htmlContent[Match]
MatchedTarget == Target(htmlFile, Matched)
MatchedExt == TargetExt(htmlFile, Matched)
\* the text with segment j replaced by the text r
ReplaceAt(text, j, r) == SubSeq(text, 1, j - 1) \o r \o SubSeq(text, j + 1, Len(text))

\* ------------------------------------------------------------ C2
\* C2: for a resolved .svg asset the encoder called depends on the byte size
\* alone: readSvgContent (inline) when size <= 5120, imageToBase64 when
\* size > 5120, whatever the content of the file.
C2_ChoiceBySizeOnly ==
    [][ (AtMatch /\ ~RemoteOrData(Matched) /\ existsSync(MatchedTarget)
            /\ MatchedExt = ".svg")
        => call' = IF Stat(MatchedTarget).size <= 5120 THEN "readSvgContent"
                   ELSE "imageToBase64" ]_vars

\* an SVG of exactly 5120 bytes has been inlined
C2_Witness ==
    /\ pc = "scan"
    /\ call = "readSvgContent"
    /\ stats.svgsInlined = 1
    /\ Len(docs[i].text) = 1
    /\ Stat(Target(docs[i].path, docs[i].text[1])).size = 5120

\* ------------------------------------------------------------ C3
\* C3: when the match resolves to a readable .svg of at most 5120 bytes, the
\* matched tag is replaced by the cleaned SVG fragment, svgsInlined increases by
\* 1 and the other counters stay.
C3_SmallSvgReplacesMatchedTag ==
    [][ (AtMatch /\ ~RemoteOrData(Matched) /\ CanRead(MatchedTarget)
            /\ SmallSvg(htmlFile, Matched))
        => /\ htmlContent' =
                ReplaceAt(htmlContent, Match, readSvgContent(MatchedTarget).val)
           /\ stats' = [stats EXCEPT !.svgsInlined = @ + 1] ]_vars

\* ------------------------------------------------------------ C4
\* C4: when the match resolves to a readable raster image or to a readable .svg
\* larger than 5120 bytes, the matched tag keeps its attribute text before and
\* after src, only its src value becomes the data URI, and pngsEncoded
\* increases by 1.
C4_OnlySrcRewritten ==
    [][ (AtMatch /\ ~RemoteOrData(Matched) /\ CanRead(MatchedTarget)
            /\ MatchedExt \in SupportedExts /\ ~SmallSvg(htmlFile, Matched))
        => /\ htmlContent' =
                ReplaceAt(htmlContent, Match,
                    <<[Matched EXCEPT
                         !.src = "data:" \o MimeType(MatchedExt) \o ";base64,",
                         !.n = 4 * ((Stat(MatchedTarget).size + 2) \div 3),
                         !.of = MatchedTarget]>>)
           /\ stats' = [stats EXCEPT !.pngsEncoded = @ + 1] ]_vars

\* ------------------------------------------------------------ C5
\* the data:, http:// and https:// references of a text, as written, in order
PassThroughRefs(text) == SelectSeq(text, LAMBDA s : AsWritten(s) /\ RemoteOrData(s))

\* C5: a match whose src starts with data:, http:// or https:// calls no
\* helper and changes neither the text nor a counter, and the pass-through
\* references of the input are those of the text being rewritten and of the
\* written output, whatever else was rewritten.
C5_PassThroughUntouched ==
    /\ [](/\ pc = "scan" => PassThroughRefs(htmlContent) = PassThroughRefs(docs[i].text)
          /\ \A d \in 1..Len(docs) :
                Written(d) =>
                    PassThroughRefs(written[OutPath(d)]) = PassThroughRefs(docs[d].text))
    /\ [][ (AtMatch /\ RemoteOrData(Matched))
           => /\ htmlContent' = htmlContent
              /\ stats' = stats
              /\ logged' = logged
              /\ call' = "none" ]_vars

\* the loop has just passed over an https:// reference, after another
\* reference of the same document was encoded
C5_Witness ==
    /\ pc = "scan"
    /\ call = "none"
    /\ stats.pngsEncoded = 1
    /\ \E j \in 1..Len(htmlContent) :
          /\ AsWritten(htmlContent[j])
          /\ Len(htmlContent[j].src) >= 8
          /\ SubSeq(htmlContent[j].src, 1, 8) = "https://"
          /\ lastIndex = Start(htmlContent, j) + SegLen(htmlContent[j])

\* ------------------------------------------------------------ C6
\* a local reference whose file is missing or cannot be read
Broken(docPath, s) == LocalRef(s) /\ ~CanRead(Target(docPath, s))
Count(text, P(_)) == Cardinality({j \in 1..Len(text) : P(text[j])})

\* C6: a finished document with exactly one missing or unreadable reference,
\* every other local reference valid, has exactly one error, the broken
\* reference unchanged in its output, and no valid reference left unprocessed.
C6_OneErrorRestRewritten ==
    \A d \in 1..Len(docStats) :
        LET text == docs[d].text
            IsBroken(s) == Broken(docs[d].path, s)
            IsValid(s) == Processable(docs[d].path, s)
            IsLocal(s) == LocalRef(s)
        IN (/\ Count(text, IsBroken) = 1
            /\ Count(text, IsValid) >= 1
            /\ Count(text, IsLocal) = Count(text, IsBroken) + Count(text, IsValid))
           => /\ docStats[d].errors = 1
              /\ Count(written[OutPath(d)], IsBroken) = 1
              /\ Count(written[OutPath(d)], IsValid) = 0

\* ------------------------------------------------------------ C7
\* C7: a match that resolves to an existing file whose extension is not a
\* supported one leaves the text unchanged, adds 1 to skipped and nothing to
\* errors, logs no error and does not touch the exit code.
C7_UnsupportedIsSkipped ==
    [][ (AtMatch /\ ~RemoteOrData(Matched) /\ existsSync(MatchedTarget)
            /\ MatchedExt \notin SupportedExts)
        => /\ htmlContent' = htmlContent
           /\ stats' = [stats EXCEPT !.skipped = @ + 1]
           /\ logged' = logged
           /\ exitCode' = exitCode ]_vars

\* a reference to a .pdf has been skipped
C7_Witness ==
    /\ pc = "scan"
    /\ call = "resolveAssetPath"
    /\ stats.skipped = 1
    /\ stats.errors = 0
    /\ \E j \in 1..Len(htmlContent) :
          /\ LocalRef(htmlContent[j])
          /\ TargetExt(htmlFile, htmlContent[j]) = ".pdf"
          /\ lastIndex = Start(htmlContent, j) + SegLen(htmlContent[j])

\* ------------------------------------------------------------ C8
RECURSIVE SumErrors(_)
SumErrors(ds) == IF ds = <<>> THEN 0 ELSE Head(ds).errors + SumErrors(Tail(ds))

\* C8: when main has processed every discovered document, the exit code is 1
\* if the per-document error counts sum to more than zero, and 0 otherwise.
C8_ExitCodeIffErrors ==
    pc = "done" =>
        /\ Len(docStats) = Len(htmlFiles)
        /\ exitCode = IF SumErrors(docStats) > 0 THEN 1 ELSE 0

\* a run of two documents, the first with an error and the second without,
\* has ended with exit code 1
C8_Witness ==
    /\ pc = "done"
    /\ Len(docStats) = 2
    /\ docStats[1].errors = 1
    /\ docStats[2].errors = 0
    /\ exitCode = 1

\* ------------------------------------------------------------ C9
\* C9: a process that has ended after an error-class event (a missing asset, an
\* asset or stylesheet read failure, a failed write) has a nonzero exit code.
C9_ErrorEventExitsNonzero ==
    (pc \in {"done", "crashed"} /\ logged # {}) => exitCode # 0

\* ------------------------------------------------------------ C10
\* C10: when the processing of a document that is not the last of the walk has
\* failed, the process does not end before every later document is written,
\* and the failure is counted in the totals' errors.
C10_RunContinuesAfterFailure ==
    (pc \in {"done", "crashed"} /\ "uncaught exception" \in logged
        /\ i < Len(htmlFiles))
        => /\ \A d \in (i + 1)..Len(htmlFiles) : Written(d)
           /\ totalStats.errors >= 1

\* ------------------------------------------------------------ C11
\* C11: the image loop ends on every document: a substitution never puts,
\* where the scan will reach it, the very reference it has just resolved (the
\* loop would resolve it again, and put it there again, without end).
C11_NoReferenceReintroduced ==
    [][ (AtMatch /\ pc' = "scan" /\ Match' # 0
            /\ IndexOf(htmlContent, Matched) = Match)
        => ~(/\ htmlContent'[Match'] = Matched
             /\ Match' \in Match..(Match + Len(htmlContent') - Len(htmlContent))) ]_vars

\* ------------------------------------------------------------ C12
CounterSum(st) == st.svgsInlined + st.pngsEncoded + st.skipped + st.errors

\* C12: a match that is not a data:, http:// or https:// reference adds 1 to
\* exactly one of svgsInlined, pngsEncoded, skipped, errors and nothing to the
\* others, a pass-through match adds nothing, and so during and at the end of
\* a document the four counters sum to the number of matches not passed over.
C12_OneOutcomePerMatch ==
    /\ [](/\ pc = "scan" => CounterSum(stats) = matches
          /\ (pc = "next" /\ docStats # <<>>)
                => CounterSum(docStats[Len(docStats)]) = matches)
    /\ [][ AtMatch =>
             IF RemoteOrData(Matched) THEN stats' = stats
             ELSE \E c \in {"svgsInlined", "pngsEncoded", "skipped", "errors"} :
                     stats' = [stats EXCEPT ![c] = @ + 1] ]_vars

\* a document of three references has ended with one image encoded, one
\* error and one reference skipped
C12_Witness ==
    /\ pc = "next"
    /\ docStats # <<>>
    /\ matches = 3
    /\ docStats[1].pngsEncoded = 1
    /\ docStats[1].errors = 1
    /\ docStats[1].skipped = 1

\* ------------------------------------------------------------ C13
\* the stylesheet links of a text
IsCssLink(s) == s.k = "link" /\ Len(s.src) >= 10
                /\ SubSeq(s.src, Len(s.src) - 9, Len(s.src)) = "styles.css"
CssLinks(text) == {j \in 1..Len(text) : IsCssLink(text[j])}
\* processHtmlFile reads the document and goes on to the image loop
ReadsDoc == pc = "next" /\ pc' = "scan"
\* the text of the document being read
Source == readFileSync(htmlFile)
\* the <style> block that holds the text css
StyleBlock(css) == <<Txt("<style>\n")>> \o css \o <<Txt("\n    </style>")>>

\* C13: when a document with one stylesheet link is read while styles.css is
\* readable, the link is replaced by a <style> block that holds the content
\* of styles.css character for character, and cssInlined is true.
C13_StylesheetInlinedVerbatim ==
    [][ (ReadsDoc /\ Cardinality(CssLinks(Source)) = 1 /\ sheet'.readable)
        => /\ htmlContent' =
                ReplaceAt(Source, CHOOSE j \in CssLinks(Source) : TRUE,
                          StyleBlock(sheet'.text))
           /\ stats'.cssInlined ]_vars

\* ------------------------------------------------------------ C14
\* C14: when a document with two or more stylesheet links is read while
\* styles.css is readable, one link is replaced by the <style> block and the
\* others stay: the output holds the stylesheet content once.
C14_AtMostOneSubstitution ==
    [][ (ReadsDoc /\ Cardinality(CssLinks(Source)) >= 2 /\ sheet'.readable)
        => /\ Cardinality(CssLinks(htmlContent')) = Cardinality(CssLinks(Source)) - 1
           /\ Cardinality({j \in 1..Len(htmlContent') :
                              htmlContent'[j] = Txt("<style>\n")}) = 1 ]_vars

\* ------------------------------------------------------------ C15
\* C15: when a document with a stylesheet link is read while styles.css
\* cannot be read, the text is left as it is, cssInlined is false, the read
\* error is logged and the image loop starts at the top of the text; the
\* links are still there in whatever the loop makes of the text.
C15_UnreadableStylesheetRecovered ==
    /\ [][ (ReadsDoc /\ CssLinks(Source) # {} /\ ~sheet'.readable)
           => /\ htmlContent' = Source
              /\ ~stats'.cssInlined
              /\ "Error reading styles.css" \in logged'
              /\ lastIndex' = 0
              /\ exitCode' = exitCode ]_vars
    /\ [](( pc = "scan" /\ CssLinks(Source) # {} /\ ~sheet.readable)
            => /\ SelectSeq(htmlContent, IsCssLink) = SelectSeq(Source, IsCssLink)
               /\ ~stats.cssInlined)

\* after styles.css could not be read for a document, an SVG of the document
\* has been inlined
C15_Witness ==
    /\ pc = "scan"
    /\ CssLinks(Source) # {}
    /\ ~sheet.readable
    /\ "Error reading styles.css" \in logged
    /\ stats.svgsInlined = 1
    /\ CssLinks(htmlContent) # {}

\* ------------------------------------------------------------ C16
\* the files of the tree, each with its path
FileOf(d, e) == d \o <<tree[d][e].name>>
Files ==
    UNION { {FileOf(d, e) : e \in {e \in 1..Len(tree[d]) : ~tree[d][e].dir}}
            : d \in DOMAIN tree }
\* path p lies below the directory dir
IsUnder(p, dir) == Len(p) > Len(dir) /\ SubSeq(p, 1, Len(dir)) = dir
NamedHtml(p) ==
    Len(p[Len(p)]) >= 5 /\ SubSeq(p[Len(p)], Len(p[Len(p)]) - 4, Len(p[Len(p)])) = ".html"
\* the files findHtmlFiles is to return
SourceDocs ==
    {p \in Files : NamedHtml(p) /\ ~IsUnder(p, <<"src", "health-report", "embedded">>)}
\* main has the list findHtmlFiles returned
Walked == pc \in {"next", "scan", "done"} \/ (pc = "crashed" /\ i > 0)
Discovered == {htmlFiles[k] : k \in 1..Len(htmlFiles)}

\* C16: the list findHtmlFiles returns holds, once each, the files below
\* BASE_DIR whose name ends in .html and that are not below the output
\* directory: no file below the output directory, no directory, whatever its
\* name, and every document in a directory named like a document.
C16_WalkReturnsTheDocuments ==
    Walked => /\ Discovered = SourceDocs
              /\ Len(htmlFiles) = Cardinality(SourceDocs)

\* the walk of a tree with an output directory, a file in capitals and a
\* directory c.html has returned the document in c.html and the one in
\* sub/embedded
C16_Witness ==
    /\ pc = "next"
    /\ run = 1
    /\ Len(tree[BASE_DIR]) = 6
    /\ BASE_DIR \o <<"c.html", "d.html">> \in Discovered
    /\ BASE_DIR \o <<"sub", "embedded", "f.html">> \in Discovered
    /\ Len(htmlFiles) = 4

\* ------------------------------------------------------------ C17
\* C17: no run has a file below the output directory in its list of
\* documents, and the list of a run that follows another holds the same
\* documents as the list of the run before it.
C17_SecondRunFindsTheSameDocuments ==
    /\ \A p \in Discovered : ~IsUnder(p, <<"src", "health-report", "embedded">>)
    /\ (run >= 2 /\ Walked) => Discovered = {firstFiles[k] : k \in 1..Len(firstFiles)}

\* the second run has walked a tree whose output directory the first run made
\* and filled
C17_Witness ==
    /\ run = 2
    /\ pc = "next"
    /\ i = 1
    /\ Len(htmlFiles) >= 2
    /\ OUTPUT_DIR \in DOMAIN tree
    /\ \A e \in 1..Len(tree[OUTPUT_DIR]) : tree[OUTPUT_DIR][e].name # "sub"
    /\ \A p \in Discovered : OUTPUT_DIR \o SubSeq(p, 3, Len(p)) \in Files

\* ------------------------------------------------------------ C18
\* C18: when the walk has failed the process has ended, with no list of
\* documents, no document read, no output written and nothing more to do.
C18_WalkFailureAbortsTheRun ==
    "Error scanning directory" \in logged
        => /\ pc = "crashed"
           /\ exitCode = 1
           /\ htmlFiles = <<>>
           /\ i = 0
           /\ htmlContent = <<>>
           /\ docStats = <<>>
           /\ written = <<>>
           /\ tree = TreeOf(docs)
           /\ ~ENABLED Next

\* the walk of a tree with two documents has failed
C18_Witness ==
    /\ pc = "crashed"
    /\ "Error scanning directory" \in logged
    /\ Len(docs) = 2

\* ------------------------------------------------------------ C19
\* C19: the outputs written are, one for each document done, the files at the
\* output directory joined with the document's path relative to BASE_DIR, and
\* they are as many as the documents done.
C19_OutputTreeMirrorsSources ==
    /\ DOMAIN written = {OutPath(d) : d \in 1..Len(docStats)}
    /\ Cardinality(DOMAIN written) = Len(docStats)
    /\ \A p \in DOMAIN written : p \in Files

\* two documents named index.html, in different directories, have been
\* written
C19_Witness ==
    /\ pc = "done"
    /\ Len(docStats) = 2
    /\ OUTPUT_DIR \o <<"index.html">> \in DOMAIN written
    /\ OUTPUT_DIR \o <<"pages", "index.html">> \in DOMAIN written

\* ------------------------------------------------------------ C20
RECURSIVE SumOf(_, _)
SumOf(ds, c) == IF ds = <<>> THEN 0 ELSE Head(ds)[c] + SumOf(Tail(ds), c)

\* C20: when the run has ended, and after each document, each of the totals
\* svgsInlined, pngsEncoded, skipped, errors is the sum of that counter over
\* the documents done, and the total cssInlined is the number of documents
\* done whose cssInlined is true.
C20_TotalsAreSums ==
    pc \in {"next", "done"} =>
        /\ \A c \in {"svgsInlined", "pngsEncoded", "skipped", "errors"} :
              totalStats[c] = SumOf(docStats, c)
        /\ totalStats.cssInlined =
              Cardinality({d \in 1..Len(docStats) : docStats[d].cssInlined})

\* a run of two documents has ended, the stylesheet and an SVG inlined in
\* one and an image encoded in the other
C20_Witness ==
    /\ pc = "done"
    /\ Len(docStats) = 2
    /\ docStats[1].cssInlined # docStats[2].cssInlined
    /\ totalStats = [cssInlined |-> 1, svgsInlined |-> 1, pngsEncoded |-> 1,
                     skipped |-> 0, errors |-> 0]

\* ------------------------------------------------------------ C21
\* the document at path p is the file the argument names, or lies below the
\* directory it names
Designated(p) ==
    LET target == pathResolve(<<"src", "health-report">>, argv[1])
    IN p = target \/ (Len(p) > Len(target) /\ SubSeq(p, 1, Len(target)) = target)

\* C21: in a build started with a directory or a file as its argument, the
\* document being rewritten and every document written are the file the
\* argument names or lie below the directory it names.
C21_OnlyDesignatedDocuments ==
    (argv # <<>> /\ argv[1] # "--help")
        => /\ pc = "scan" => Designated(htmlFile)
           /\ \A d \in 1..Len(docs) : Written(d) => Designated(docs[d].path)

\* ------------------------------------------------------------ C22
\* C22: a build started with --help reads no document, writes no output and
\* ends with exit code 0.
C22_HelpDoesNotBuild ==
    (argv # <<>> /\ argv[1] = "--help")
        => /\ pc # "scan"
           /\ docStats = <<>>
           /\ written = <<>>
           /\ pc \in {"done", "crashed"} => exitCode = 0

\* ------------------------------------------------------------ C23
\* the occurrences of the tag t in a text
Occurrences(text, t) == Cardinality({j \in 1..Len(text) : text[j] = t})

\* C23: when the source of a finished document holds the same tag, a
\* reference to a processable asset, N >= 2 times, none of the N is left in
\* the output and the counter of the asset's kind is at least N, and exactly N
\* when the document holds no other tag.
C23_DuplicatesAllProcessed ==
    \A d \in 1..Len(docStats) :
        \A j \in 1..Len(docs[d].text) :
            LET t == docs[d].text[j]
                N == Occurrences(docs[d].text, t)
                done == IF SmallSvg(docs[d].path, t) THEN docStats[d].svgsInlined
                        ELSE docStats[d].pngsEncoded
            IN (Processable(docs[d].path, t) /\ N >= 2)
               => /\ Occurrences(written[OutPath(d)], t) = 0
                  /\ done >= N
                  /\ N = Len(docs[d].text) => done = N

\* ------------------------------------------------------------ C24
\* the value of a character of the base64 alphabet
SextetOf(c) ==
    CHOOSE v \in 0..63 :
        SubSeq("ABCDEFGHIJKLMNOPQRSTUVWXYZabcdefghijklmnopqrstuvwxyz0123456789+/",
               v + 1, v + 1) = c
\* the bytes a base64 payload stands for
RECURSIVE Decode(_)
Decode(payload) ==
    IF Len(payload) < 4 THEN <<>>
    ELSE LET c(k) == SubSeq(payload, k, k)
             v(k) == SextetOf(c(k))
             b1 == v(1) * 4 + v(2) \div 16
         IN IF c(3) = "=" THEN <<b1>>
            ELSE IF c(4) = "=" THEN <<b1, (v(2) % 16) * 16 + v(3) \div 4>>
            ELSE <<b1, (v(2) % 16) * 16 + v(3) \div 4, (v(3) % 4) * 64 + v(4)>>
                 \o Decode(SubSeq(payload, 5, Len(payload)))
\* the MIME type of a lowercased extension
MimeOf(ext) ==
    CASE ext = ".png" -> "image/png"
      [] ext \in {".jpg", ".jpeg"} -> "image/jpeg"
      [] ext = ".gif" -> "image/gif"
      [] ext = ".webp" -> "image/webp"
      [] ext = ".svg" -> "image/svg+xml"
      [] OTHER -> "image/png"

\* C24: what imageToBase64 returns for a readable file is "data:", the MIME
\* type of the file's lowercased extension, ";base64," and a payload of
\* 4 * ceil(size / 3) characters that decodes to the file's bytes.
C24_DataUriRoundTrip ==
    ret.fn = "imageToBase64" =>
        LET prefix == "data:" \o MimeOf(toLowerCase(extname(arg.path))) \o ";base64,"
            payload == SubSeq(ret.val, Len(prefix) + 1, Len(ret.val))
        IN /\ Len(ret.val) >= Len(prefix)
           /\ SubSeq(ret.val, 1, Len(prefix)) = prefix
           /\ Decode(payload) = arg.bytes
           /\ Len(payload) = Base64Len(Len(arg.bytes))

\* the four bytes 255, 0, 77, 255 of e.WebP have been encoded
C24_Witness ==
    /\ ret.fn = "imageToBase64"
    /\ arg.path = <<"src", "assets", "e.WebP">>
    /\ arg.bytes = <<255, 0, 77, 255>>
    /\ ret.val = "data:image/webp;base64,/wBN/w=="

\* ------------------------------------------------------------ C25
\* the string holds an XML declaration, a comment block
HasDecl(s) ==
    \E a \in 1..Len(s) : \E b \in (a + 5)..(Len(s) - 1) :
        SubSeq(s, a, a + 4) = "<?xml" /\ SubSeq(s, b, b + 1) = "?>"
HasComment(s) ==
    \E a \in 1..Len(s) : \E b \in (a + 4)..(Len(s) - 2) :
        SubSeq(s, a, a + 3) = "<!--" /\ SubSeq(s, b, b + 2) = "-->"

\* C25: what readSvgContent returns for a source text holds no XML
\* declaration and no comment block, neither starts nor ends with white
\* space, and is left as it is by the same cleanup.
C25_CleanupIsComplete ==
    ret.fn = "readSvgContent" =>
        /\ ~HasDecl(ret.val)
        /\ ~HasComment(ret.val)
        /\ ret.val # "" => (SubSeq(ret.val, 1, 1) # " "
                            /\ SubSeq(ret.val, Len(ret.val), Len(ret.val)) # " ")
        /\ CleanSvg(ret.val) = ret.val

\* ------------------------------------------------------------ C26
\* the path p, its leading "./" and "../" applied to the directory dir
RECURSIVE Climb(_, _)
Climb(dir, p) ==
    IF Len(p) >= 3 /\ SubSeq(p, 1, 3) = "../"
    THEN Climb(SubSeq(dir, 1, Len(dir) - 1), SubSeq(p, 4, Len(p)))
    ELSE IF Len(p) >= 2 /\ SubSeq(p, 1, 2) = "./" THEN Climb(dir, SubSeq(p, 3, Len(p)))
    ELSE IF Len(p) >= 1 /\ SubSeq(p, 1, 1) = "/" THEN Split(SubSeq(p, 2, Len(p)))
    ELSE dir \o Split(p)

\* C26: resolveAssetPath returns the path the reference names from the
\* directory of the document (an absolute reference names itself), without
\* "." and "..", when a file is there, and the not-found value when none is.
C26_ResolvedFromDocumentDirectory ==
    ret.fn = "resolveAssetPath" =>
        LET htmlDir == SubSeq(arg.htmlFilePath, 1, Len(arg.htmlFilePath) - 1)
            there == Climb(htmlDir, arg.assetPath)
        IN ret.val = IF there \in DOMAIN AssetFiles THEN there ELSE <<>>

\* "../assets/pic.png" has been resolved from the document in pages/: no file
\* is there, though one is at that path from BASE_DIR
C26_Witness ==
    /\ ret.fn = "resolveAssetPath"
    /\ arg.htmlFilePath = <<"src", "health-report", "pages", "index.html">>
    /\ arg.assetPath = "../assets/pic.png"
    /\ ret.val = <<>>
    /\ <<"src", "assets", "pic.png">> \in DOMAIN AssetFiles

\* ------------------------------------------------------------ C27
\* C27: a document is read only when every document before it in the list
\* has been written and folded into the totals; the index of the document
\* moves one forward at a time; while a document is rewritten the totals, the
\* files written and the stats returned stay; and the totals change only in
\* the step that writes the document and moves on to the next.
C27_OneDocumentAtATime ==
    /\ [][ ReadsDoc =>
             /\ Len(docStats) = i - 1
             /\ \A d \in 1..(i - 1) : Written(d)
             /\ \A c \in {"svgsInlined", "pngsEncoded", "skipped", "errors"} :
                   totalStats[c] = SumOf(docStats, c)
             /\ \A d \in i..Len(htmlFiles) : ~Written(d) ]_vars
    /\ [][ i' = i \/ i' = i + 1 ]_vars
    /\ [][ (pc = "scan" /\ pc' = "scan")
             => (totalStats' = totalStats /\ written' = written
                 /\ docStats' = docStats /\ i' = i) ]_vars
    /\ [][ (totalStats' # totalStats \/ docStats' # docStats)
             => (pc = "scan" /\ pc' = "next" /\ i' = i + 1
                 /\ OutPath(i) \in DOMAIN written') ]_vars

\* the second document is being rewritten, an image of it encoded, while the
\* totals hold the first document's counters and not yet its own
C27_Witness ==
    /\ pc = "scan"
    /\ i = 2
    /\ Written(1)
    /\ docStats[1].pngsEncoded = 1
    /\ stats.pngsEncoded = 1
    /\ totalStats.pngsEncoded = 1

\* ------------------------------------------------------------ C28
\* C28: an iteration of the loop changes the text at the matched tag and
\* nowhere else, and leaves lastIndex at or before the start of every <img>
\* tag that followed the match.
C28_SubstitutionLandsOnTheMatch ==
    [][ AtMatch =>
          LET grow == Len(htmlContent') - Len(htmlContent)
              following == {j \in (Match + 1)..Len(htmlContent) : htmlContent[j].k = "img"}
          IN /\ htmlContent' =
                   ReplaceAt(htmlContent, Match, SubSeq(htmlContent', Match, Match + grow))
             /\ \A j \in following : lastIndex' <= Start(htmlContent', j + grow) ]_vars

\* ------------------------------------------------------------ C29
\* C29: every file written lies below the output directory, at a path without
\* "." and ".."; no document, asset or stylesheet is among the files written;
\* and the directories outside the output directory list what they listed
\* when the build started.
C29_WritesOnlyUnderOutputDir ==
    /\ \A p \in DOMAIN written :
          /\ IsUnder(p, <<"src", "health-report", "embedded">>)
          /\ \A k \in 1..Len(p) : p[k] \notin {".", "..", ""}
          /\ p \notin DOMAIN AssetFiles
          /\ p # <<"src", "health-report", "styles.css">>
          /\ \A d \in 1..Len(docs) : p # docs[d].path
    /\ \A dir \in DOMAIN tree :
          IF dir = OUTPUT_DIR \/ IsUnder(dir, OUTPUT_DIR) THEN TRUE
          ELSE dir \in DOMAIN TreeOf(docs) /\ tree[dir] = TreeOf(docs)[dir]

\* a run of two documents has ended, and made the directory pages below the
\* output directory for the second
C29_Witness ==
    /\ pc = "done"
    /\ Cardinality(DOMAIN written) = 2
    /\ OUTPUT_DIR \o <<"pages">> \in DOMAIN tree
    /\ OUTPUT_DIR \o <<"pages">> \notin DOMAIN TreeOf(docs)

\* ------------------------------------------------------------ C30
\* the file holds nothing but XML declarations, comments and white space
NothingToInline(path) ==
    \A j \in 1..Len(Stat(path).text) : Stat(path).text[j].k \in {"decl", "comment", "ws"}

\* C30: a match that resolves to a readable .svg of at most 5120 bytes with
\* nothing left after the cleanup leaves the text as it is and adds 1 to
\* errors and nothing to the other counters; a document with a stylesheet
\* link read while styles.css is readable and empty keeps its text, and its
\* cssInlined is false.
C30_EmptyContentIsAFailure ==
    /\ [][ (AtMatch /\ ~RemoteOrData(Matched) /\ CanRead(MatchedTarget)
               /\ SmallSvg(htmlFile, Matched) /\ NothingToInline(MatchedTarget))
           => /\ htmlContent' = htmlContent
              /\ stats' = [stats EXCEPT !.errors = @ + 1] ]_vars
    /\ [][ (ReadsDoc /\ CssLinks(Source) # {} /\ sheet'.readable /\ sheet'.size = 0)
           => /\ htmlContent' = Source
              /\ ~stats'.cssInlined ]_vars

\* in a document whose stylesheet link found styles.css empty, a reference
\* to an SVG holding only a comment has been counted as an error
C30_Witness ==
    /\ pc = "scan"
    /\ sheet.readable
    /\ sheet.size = 0
    /\ CssLinks(htmlContent) # {}
    /\ ~stats.cssInlined
    /\ call = "readSvgContent"
    /\ stats.errors = 1
    /\ stats.svgsInlined = 0
    /\ \E j \in 1..Len(htmlContent) :
          /\ LocalRef(htmlContent[j])
          /\ Target(htmlFile, htmlContent[j]) = <<"src", "assets", "note.svg">>

====
